---- MODULE Spec2Model ----
(***************************************************************************)
(* Model of src/junitxml_parse.py: the SAX content handler JUnitXMLHandler *)
(* driven by a stream of well-nested startElement / endElement /           *)
(* characters events, as xml.sax.parse delivers them.                      *)
(*                                                                         *)
(* Python strings are sequences of one-character strings.  An optional     *)
(* value is a sequence of length 0 (None) or 1 (the value).  Element and   *)
(* attribute names are TLA+ strings.                                       *)
(***************************************************************************)
EXTENDS Integers, Sequences, FiniteSets, TLC

(* ------------------------------ bounds --------------------------------- *)

\* number of events the event source delivers in one document
MaxEvents == 6
\* depth of open elements in the document
MaxDepth == 3
\* number of dotted components of a classname drawn for _pytest_fullname
MaxParts == 3

(* --------------------------- optional values --------------------------- *)

None == <<>>
Some(v) == <<v>>
IsNone(o) == o = <<>>
Val(o) == o[1]

(* ---------------------------- str operations --------------------------- *)

\* s.startswith(p)
StartsWith(s, p) ==
    /\ Len(p) <= Len(s)
    /\ SubSeq(s, 1, Len(p)) = p

\* s[n:]
Drop(s, n) == SubSeq(s, n + 1, Len(s))

\* index of the first sep in s, or 0
RECURSIVE FindFrom(_, _, _)
FindFrom(s, sep, i) ==
    IF i > Len(s) THEN 0
    ELSE IF s[i] = sep THEN i
    ELSE FindFrom(s, sep, i + 1)

\* s.split(sep) for a one-character sep: always at least one part
RECURSIVE Split(_, _)
Split(s, sep) ==
    LET i == FindFrom(s, sep, 1)
    IN  IF i = 0 THEN <<s>>
        ELSE <<SubSeq(s, 1, i - 1)>> \o Split(Drop(s, i), sep)

\* index of the last sep in s, or 0
RECURSIVE RFindFrom(_, _, _)
RFindFrom(s, sep, i) ==
    IF i < 1 THEN 0
    ELSE IF s[i] = sep THEN i
    ELSE RFindFrom(s, sep, i - 1)

\* s.rpartition(sep)[-1]
RPartitionLast(s, sep) == Drop(s, RFindFrom(s, sep, Len(s)))

\* sep.join(parts)
RECURSIVE Join(_, _)
Join(parts, sep) ==
    IF Len(parts) = 0 THEN <<>>
    ELSE IF Len(parts) = 1 THEN parts[1]
    ELSE parts[1] \o <<sep>> \o Join(Tail(parts), sep)

\* parts[:-1]
AllButLast(parts) == SubSeq(parts, 1, Len(parts) - 1)

Test == <<"T", "e", "s", "t">>
DotPy == <<".", "p", "y">>
ColonColon == <<":", ":">>

(* ------------------------------ int / float ---------------------------- *)

Digits == {"0", "1", "2", "3", "4", "5", "6", "7", "8", "9"}

DigitVal(c) ==
    CASE c = "0" -> 0 [] c = "1" -> 1 [] c = "2" -> 2 [] c = "3" -> 3
      [] c = "4" -> 4 [] c = "5" -> 5 [] c = "6" -> 6 [] c = "7" -> 7
      [] c = "8" -> 8 [] c = "9" -> 9

AllDigits(s) == \A i \in 1..Len(s) : s[i] \in Digits

RECURSIVE DigitsVal(_)
DigitsVal(s) ==
    IF Len(s) = 0 THEN 0
    ELSE 10 * DigitsVal(SubSeq(s, 1, Len(s) - 1)) + DigitVal(s[Len(s)])

\* int(s) succeeds (strings of the model's alphabet: digits, ".", letters)
IntOk(s) == Len(s) > 0 /\ AllDigits(s)
IntOf(s) == DigitsVal(s)

RECURSIVE StripZeros(_)
StripZeros(s) ==
    IF Len(s) > 0 /\ s[Len(s)] = "0" THEN StripZeros(SubSeq(s, 1, Len(s) - 1))
    ELSE s

\* float(s) succeeds: digits with at most one ".", and at least one digit
FloatOk(s) ==
    LET i == FindFrom(s, ".", 1)
        ip == IF i = 0 THEN s ELSE SubSeq(s, 1, i - 1)
        fp == IF i = 0 THEN <<>> ELSE Drop(s, i)
    IN  /\ AllDigits(ip)
        /\ AllDigits(fp)
        /\ Len(ip) + Len(fp) > 0

\* the value of float(s): the integer part and the fraction digits without
\* trailing zeros, so that "3", "3." and "3.0" are the same number
FloatOf(s) ==
    LET i == FindFrom(s, ".", 1)
        ip == IF i = 0 THEN s ELSE SubSeq(s, 1, i - 1)
        fp == IF i = 0 THEN <<>> ELSE Drop(s, i)
    IN  <<DigitsVal(ip), StripZeros(fp)>>

(* ------------------------------ attributes ----------------------------- *)

\* attrs.get(k)
Get(attrs, k) == IF k \in DOMAIN attrs THEN Some(attrs[k]) ELSE None

NoAttrs == [k \in {} |-> <<>>]

\* attrs restricted to the attribute names other than those in ks
Without(attrs, ks) == [k \in (DOMAIN attrs) \ ks |-> attrs[k]]

\* d[k].append(v) on a collections.defaultdict(list)
DictAppend(d, k, v) ==
    [x \in (DOMAIN d) \cup {k} |->
        IF x = k THEN Append(IF k \in DOMAIN d THEN d[k] ELSE <<>>, v)
        ELSE d[x]]

\* d[k] read without creating the key
Bucket(d, k) == IF k \in DOMAIN d THEN d[k] ELSE <<>>

\* for k in sorted(attrs.keys()): d[k] = attrs[k]
DictUpdate(d, attrs) ==
    [x \in (DOMAIN d) \cup (DOMAIN attrs) |->
        IF x \in DOMAIN attrs THEN attrs[x] ELSE d[x]]

(* ------------------------------ os.path -------------------------------- *)

\* os.path.isabs(p) (posixpath)
IsAbs(p) == StartsWith(p, <<"/">>)

\* the component stack of posixpath.normpath: empty and "." components are
\* dropped, ".." removes the component before it where there is one
RECURSIVE NormComps(_, _, _)
NormComps(comps, acc, abs) ==
    IF Len(comps) = 0 THEN acc
    ELSE LET c == Head(comps)
             rest == Tail(comps)
         IN  IF c = <<>> \/ c = <<".">> THEN NormComps(rest, acc, abs)
             ELSE IF c = <<".", ".">>
             THEN IF Len(acc) > 0 /\ acc[Len(acc)] # <<".", ".">>
                  THEN NormComps(rest, AllButLast(acc), abs)
                  ELSE IF Len(acc) = 0 /\ abs
                  THEN NormComps(rest, acc, abs)
                  ELSE NormComps(rest, Append(acc, c), abs)
             ELSE NormComps(rest, Append(acc, c), abs)

\* os.path.normpath(p) (posixpath)
NormPath(p) ==
    IF p = <<>> THEN <<".">>
    ELSE LET abs == IsAbs(p)
             two == StartsWith(p, <<"/", "/">>) /\ ~StartsWith(p, <<"/", "/", "/">>)
             lead == IF ~abs THEN <<>> ELSE IF two THEN <<"/", "/">> ELSE <<"/">>
             body == Join(NormComps(Split(p, "/"), <<>>, abs), "/")
             path == lead \o body
         IN  IF path = <<>> THEN <<".">> ELSE path

RECURSIVE RStripSlash(_)
RStripSlash(s) ==
    IF Len(s) > 0 /\ s[Len(s)] = "/" THEN RStripSlash(SubSeq(s, 1, Len(s) - 1))
    ELSE s

\* os.path.dirname(p) (posixpath)
DirName(p) ==
    LET head == SubSeq(p, 1, RFindFrom(p, "/", Len(p)))
    IN  IF head # <<>> /\ RStripSlash(head) # <<>> THEN RStripSlash(head)
        ELSE head

(* -------------------------- identity of a test ------------------------- *)

\* a mutation of PytestFullname: the last component is always the class
PytestFullname_classAlways(strip_prefix, add_prefix, test_class, test_name) ==
    LET test_module_parts == IF ~IsNone(test_class)
                             THEN AllButLast(Split(Val(test_class), "."))
                             ELSE <<>>
        test_class_name == IF ~IsNone(test_class)
                           THEN RPartitionLast(Val(test_class), ".")
                           ELSE <<>>
        path0 == Join(test_module_parts, "/") \o DotPy
        path1 == IF strip_prefix # <<>> /\ StartsWith(path0, strip_prefix)
                 THEN Drop(path0, Len(strip_prefix))
                 ELSE path0
        path_to_py_file == add_prefix \o path1
    IN  IF test_class_name # <<>>
        THEN path_to_py_file \o ColonColon \o test_class_name \o ColonColon \o test_name
        ELSE path_to_py_file \o ColonColon \o test_name

\* a mutation of PytestFullname: the last component of the classname is
\* always a module name
PytestFullname_moduleAlways(strip_prefix, add_prefix, test_class, test_name) ==
    LET parts0 == IF ~IsNone(test_class)
                  THEN AllButLast(Split(Val(test_class), "."))
                  ELSE <<>>
        class0 == IF ~IsNone(test_class)
                  THEN RPartitionLast(Val(test_class), ".")
                  ELSE <<>>
        test_module_parts == IF class0 # <<>> THEN Append(parts0, class0) ELSE parts0
        path0 == Join(test_module_parts, "/") \o DotPy
        path1 == IF strip_prefix # <<>> /\ StartsWith(path0, strip_prefix)
                 THEN Drop(path0, Len(strip_prefix))
                 ELSE path0
    IN  add_prefix \o path1 \o ColonColon \o test_name

\* a mutation of PytestFullname: add_prefix is not prepended to a path that
\* starts with it
PytestFullname_guarded(strip_prefix, add_prefix, test_class, test_name) ==
    LET parts0 == IF ~IsNone(test_class)
                  THEN AllButLast(Split(Val(test_class), "."))
                  ELSE <<>>
        class0 == IF ~IsNone(test_class)
                  THEN RPartitionLast(Val(test_class), ".")
                  ELSE <<>>
        isModule == class0 # <<>> /\ ~StartsWith(class0, Test)
        test_module_parts == IF isModule THEN Append(parts0, class0) ELSE parts0
        test_class_name == IF isModule THEN <<>> ELSE class0
        path0 == Join(test_module_parts, "/") \o DotPy
        path1 == IF strip_prefix # <<>> /\ StartsWith(path0, strip_prefix)
                 THEN Drop(path0, Len(strip_prefix))
                 ELSE path0
        path_to_py_file == IF StartsWith(path1, add_prefix) THEN path1
                           ELSE add_prefix \o path1
    IN  IF test_class_name # <<>>
        THEN path_to_py_file \o ColonColon \o test_class_name \o ColonColon \o test_name
        ELSE path_to_py_file \o ColonColon \o test_name

\* a mutation of PytestFullname: len(strip_prefix) characters are cut off
\* without looking at them
PytestFullname_stripBlind(strip_prefix, add_prefix, test_class, test_name) ==
    LET parts0 == IF ~IsNone(test_class)
                  THEN AllButLast(Split(Val(test_class), "."))
                  ELSE <<>>
        class0 == IF ~IsNone(test_class)
                  THEN RPartitionLast(Val(test_class), ".")
                  ELSE <<>>
        isModule == class0 # <<>> /\ ~StartsWith(class0, Test)
        test_module_parts == IF isModule THEN Append(parts0, class0) ELSE parts0
        test_class_name == IF isModule THEN <<>> ELSE class0
        path0 == Join(test_module_parts, "/") \o DotPy
        path1 == IF strip_prefix # <<>>
                 THEN Drop(path0, Len(strip_prefix))
                 ELSE path0
        path_to_py_file == add_prefix \o path1
    IN  IF test_class_name # <<>>
        THEN path_to_py_file \o ColonColon \o test_class_name \o ColonColon \o test_name
        ELSE path_to_py_file \o ColonColon \o test_name

\* JUnitXMLHandler._pytest_fullname with the two prefixes as parameters;
\* test_class is optional, as in the source
PytestFullname(strip_prefix, add_prefix, test_class, test_name) ==
    LET parts0 == IF ~IsNone(test_class)
                  THEN AllButLast(Split(Val(test_class), "."))
                  ELSE <<>>
        class0 == IF ~IsNone(test_class)
                  THEN RPartitionLast(Val(test_class), ".")
                  ELSE <<>>
        isModule == class0 # <<>> /\ ~StartsWith(class0, Test)
        test_module_parts == IF isModule THEN Append(parts0, class0) ELSE parts0
        test_class_name == IF isModule THEN <<>> ELSE class0
        path0 == Join(test_module_parts, "/") \o DotPy
        path1 == IF strip_prefix # <<>> /\ StartsWith(path0, strip_prefix)
                 THEN Drop(path0, Len(strip_prefix))
                 ELSE path0
        path_to_py_file == add_prefix \o path1
    IN  IF test_class_name # <<>>
        THEN path_to_py_file \o ColonColon \o test_class_name \o ColonColon \o test_name
        ELSE path_to_py_file \o ColonColon \o test_name

(* ------------------------------- state --------------------------------- *)

VARIABLES
    \* JUnitXMLHandler fields set from the command line
    _show, _junitxml, _strip_prefix, _add_prefix,
    _report_passing, _report_errors, _report_skips,
    \* JUnitXMLHandler parse state
    _cur_tag, _testcase_level, _cur_test, _cur_status,
    \* JUnitXMLHandler fields read by report()
    passing_tests, nonpassing_tests, unhandled_tags,
    expected_num_errors, expected_num_failures, expected_num_skips,
    expected_num_tests, total_time_sec,
    num_testcases, num_errors, num_failures, num_skips,
    show_attrs, show_text,
    \* the process: lines printed to stderr and to stdout, the exception that
    \* ended it
    stderr, stdout, raised, pc,
    \* the event source: the elements open in the document, the number of
    \* events delivered and the last event
    stack, nevents, ev,
    \* history of the document: the number of <testcase> start events
    \* delivered, the attributes of the last of them, and the statuses of the
    \* error/failure/skipped start events since; the number of start events
    \* delivered for each of these tags, and whether a finished <testcase> had
    \* more than one of them
    started, case_attrs, children, status_starts, multi

cfgVars == <<_show, _junitxml, _strip_prefix, _add_prefix,
             _report_passing, _report_errors, _report_skips>>
curVars == <<_testcase_level, _cur_test, _cur_status>>
expVars == <<expected_num_errors, expected_num_failures, expected_num_skips,
             expected_num_tests, total_time_sec>>
obsVars == <<num_testcases, num_errors, num_failures, num_skips>>
bucketVars == <<passing_tests, nonpassing_tests>>
showVars == <<show_attrs, show_text>>
procVars == <<stderr, stdout, raised, pc>>
srcVars == <<stack, nevents, ev>>
histVars == <<started, case_attrs, children, status_starts, multi>>

vars == <<cfgVars, _cur_tag, curVars, expVars, obsVars, bucketVars,
          unhandled_tags, showVars, procVars, srcVars, histVars>>

(* ------------------------------- inputs -------------------------------- *)

\* element names the event source delivers; system_out is a legal XML name
\* that startElement maps to the same method as system-out
Tags == {"testsuites", "testsuite", "testcase", "error", "failure", "skipped",
         "system-out", "system-err", "system_out", "properties"}

\* character data chunks
Contents == {<<>>, <<"x">>, <<"y">>}

T1 == <<"t">>

\* attribute maps of <testcase>
CaseNoName == NoAttrs
CaseEmptyName == [k \in {"name", "classname"} |->
                    IF k = "name" THEN <<>> ELSE <<"m">>]
CaseNoClass == [k \in {"name"} |-> T1]
CaseMethod == [k \in {"name", "classname"} |->
                 IF k = "name" THEN T1 ELSE <<"m", ".", "T", "e", "s", "t", "A">>]
CaseFunction == [k \in {"name", "classname", "file"} |->
                   IF k = "name" THEN T1
                   ELSE IF k = "classname" THEN <<"m">>
                   ELSE <<"m", ".", "p", "y">>]
CaseAttrs == {CaseNoName, CaseEmptyName, CaseNoClass, CaseMethod, CaseFunction}

\* attribute maps of <testsuite>
SuiteFull ==
    [k \in {"name", "errors", "failures", "tests", "time", "skips", "skipped"} |->
        CASE k = "name" -> <<"p", "y", "t", "e", "s", "t">>
          [] k = "errors" -> <<"1">>
          [] k = "failures" -> <<"0">>
          [] k = "tests" -> <<"1", "2">>
          [] k = "time" -> <<"1", ".", "5">>
          [] k = "skips" -> <<"3">>
          [] k = "skipped" -> <<"4">>]
SuiteBad(a) == [SuiteFull EXCEPT ![a] = <<"x">>]
SuiteAttrs ==
    {Without(SuiteFull, {"skipped"}), Without(SuiteFull, {"skips", "name"}),
     Without(SuiteBad("name"), {"skips", "skipped"}),
     Without(SuiteBad("name"), {"skipped"})}
    \cup {Without(SuiteFull, {a, "skipped"}) :
            a \in {"errors", "failures", "tests", "time"}}
    \cup {Without(SuiteBad(a), {"skips"}) :
            a \in {"errors", "failures", "tests", "time", "skipped"}}

AttrsOf(name) ==
    IF name = "testcase" THEN CaseAttrs
    ELSE IF name = "testsuite" THEN SuiteAttrs
    ELSE {NoAttrs}

Code == <<"/", "c", "o", "d", "e", "/">>

\* command lines: argparse.Namespace after parse_args()
ArgsOf(show, junitxml, strip_prefix, add_prefix, flag) ==
    [show |-> show, junitxml |-> junitxml, strip_prefix |-> strip_prefix,
     add_prefix |-> add_prefix, passing |-> flag, errors |-> flag,
     skips |-> flag]
ArgsPool ==
    {ArgsOf(None, <<"j">>, Code, <<>>, FALSE),
     ArgsOf(Some(PytestFullname(Code, <<>>, Some(CaseMethod["classname"]), T1)),
            <<"/", "j">>, Code, <<>>, TRUE),
     ArgsOf(Some(PytestFullname(Code, <<"o", "/">>, Some(CaseFunction["classname"]), T1)),
            <<"o", "/", ".", "/", "j">>, Code, <<>>, TRUE)}

\* components of the dotted classnames drawn for _pytest_fullname
Components == {<<>>, <<"m">>, <<"T", "e", "s", "t", "A">>}

\* the names of n components joined by sep
RECURSIVE Joined(_, _)
Joined(n, sep) ==
    IF n = 1 THEN Components
    ELSE {c \o <<sep>> \o r : c \in Components, r \in Joined(n - 1, sep)}

ClassNames == UNION {Joined(n, ".") : n \in 1..MaxParts}
Files == {f \o DotPy : f \in UNION {Joined(n, "/") : n \in 1..MaxParts}}

\* <testcase classname="/code/tests.test_mod" name="test_func">
CaseCodePath ==
    [k \in {"name", "classname"} |->
        IF k = "name" THEN <<"t", "e", "s", "t", "_", "f", "u", "n", "c">>
        ELSE <<"/", "c", "o", "d", "e", "/", "t", "e", "s", "t", "s", ".",
               "t", "e", "s", "t", "_", "m", "o", "d">>]

\* attribute maps of <testcase> with a name and a classname, with and
\* without a file
FullnameAttrs ==
    {[k \in {"name", "classname"} |-> IF k = "name" THEN T1 ELSE c] :
        c \in ClassNames}
    \cup {CaseCodePath}
    \cup {[k \in {"name", "classname", "file"} |->
             IF k = "name" THEN T1 ELSE IF k = "classname" THEN c ELSE f] :
          c \in ClassNames, f \in Files}

\* command lines with and without prefixes
FullnameArgsPool ==
    {ArgsOf(None, <<"/", "j">>, sp, ap, FALSE) :
        sp \in {<<>>, <<"m", "/">>, Code}, ap \in {<<>>, <<"m", "/">>}}

(* ------------------------- JUnitXMLHandler.__init__ -------------------- *)

\* self._add_prefix as __init__ derives it
InitAddPrefix(args) ==
    IF args.add_prefix # <<>> THEN args.add_prefix
    ELSE IF ~IsAbs(args.junitxml)
    THEN LET junitxml_dir == DirName(NormPath(args.junitxml))
         IN  IF junitxml_dir # <<>> THEN junitxml_dir \o <<"/">> ELSE junitxml_dir
    ELSE <<>>

__init__(args) ==
    /\ _show = args.show
    /\ _junitxml = args.junitxml
    /\ _strip_prefix = args.strip_prefix
    /\ _add_prefix = InitAddPrefix(args)
    /\ _report_passing = args.passing
    /\ _report_errors = args.errors
    /\ _report_skips = args.skips
    /\ _cur_tag = ""
    /\ _testcase_level = 0
    /\ _cur_test = None
    /\ _cur_status = None
    /\ passing_tests = <<>>
    /\ nonpassing_tests = NoAttrs
    /\ unhandled_tags = {}
    /\ expected_num_errors = None
    /\ expected_num_failures = None
    /\ expected_num_skips = None
    /\ expected_num_tests = None
    /\ total_time_sec = None
    /\ num_testcases = 0
    /\ num_errors = 0
    /\ num_failures = 0
    /\ num_skips = 0
    /\ show_attrs = NoAttrs
    /\ show_text = NoAttrs

NoEvent == [kind |-> "none", name |-> "", attrs |-> NoAttrs, content |-> <<>>]

Init ==
    /\ \E args \in ArgsPool : __init__(args)
    /\ stderr = <<>>
    /\ stdout = <<>>
    /\ raised = "none"
    /\ pc = "parsing"
    /\ stack = <<>>
    /\ nevents = 0
    /\ ev = NoEvent
    /\ started = 0
    /\ case_attrs = None
    /\ children = <<>>
    /\ status_starts = [t \in {"error", "failure", "skipped"} |-> 0]
    /\ multi = FALSE

(* ------------------------------ handlers ------------------------------- *)

\* self._pytest_fullname(test_class, test_name)
_pytest_fullname(test_class, test_name) ==
    PytestFullname(_strip_prefix, _add_prefix, test_class, test_name)

\* bool(str) of an optional string: None and "" are false
Truthy(o) == ~IsNone(o) /\ Val(o) # <<>>

_start_testsuites(attrs) ==
    /\ UNCHANGED <<curVars, expVars, obsVars, bucketVars, unhandled_tags,
                   showVars, stderr, raised>>

\* a mutation of SuiteFailsAt: the skip count is looked up before the other
\* attributes are stored
SuiteFailsAt_skipsFirst(attrs) ==
    IF IsNone(Get(attrs, "skips")) /\ "skipped" \notin DOMAIN attrs THEN 1
    ELSE IF "errors" \notin DOMAIN attrs \/ ~IntOk(attrs["errors"]) THEN 1
    ELSE IF "failures" \notin DOMAIN attrs \/ ~IntOk(attrs["failures"]) THEN 2
    ELSE IF "tests" \notin DOMAIN attrs \/ ~IntOk(attrs["tests"]) THEN 3
    ELSE IF "time" \notin DOMAIN attrs \/ ~FloatOk(attrs["time"]) THEN 4
    ELSE IF ~IntOk(IF IsNone(Get(attrs, "skips")) THEN attrs["skipped"]
                   ELSE attrs["skips"]) THEN 5
    ELSE 0

\* the first statement of _start_testsuite that raises: 1 errors, 2 failures,
\* 3 tests, 4 time, 5 skips/skipped, or 0 when none does
SuiteFailsAt(attrs) ==
    IF "errors" \notin DOMAIN attrs \/ ~IntOk(attrs["errors"]) THEN 1
    ELSE IF "failures" \notin DOMAIN attrs \/ ~IntOk(attrs["failures"]) THEN 2
    ELSE IF "tests" \notin DOMAIN attrs \/ ~IntOk(attrs["tests"]) THEN 3
    ELSE IF "time" \notin DOMAIN attrs \/ ~FloatOk(attrs["time"]) THEN 4
    ELSE IF IsNone(Get(attrs, "skips")) /\ "skipped" \notin DOMAIN attrs THEN 5
    ELSE IF ~IntOk(IF IsNone(Get(attrs, "skips")) THEN attrs["skipped"]
                   ELSE attrs["skips"]) THEN 5
    ELSE 0

\* a mutation of SuiteException: a name other than "pytest" is an error
SuiteException_strictName(attrs) ==
    LET n == SuiteFailsAt(attrs)
        k == CASE n = 1 -> "errors" [] n = 2 -> "failures" [] n = 3 -> "tests"
               [] n = 4 -> "time" [] OTHER -> "skipped"
    IN  IF n = 0
        THEN IF Get(attrs, "name") # Some(<<"p", "y", "t", "e", "s", "t">>)
             THEN "ValueError" ELSE "none"
        ELSE IF n = 5
        THEN IF IsNone(Get(attrs, "skips")) /\ "skipped" \notin DOMAIN attrs
             THEN "KeyError" ELSE "ValueError"
        ELSE IF k \notin DOMAIN attrs THEN "KeyError" ELSE "ValueError"

\* the exception that statement raises: attrs[k] of a missing k is a
\* KeyError, int() or float() of a non-number a ValueError
SuiteException(attrs) ==
    LET n == SuiteFailsAt(attrs)
        k == CASE n = 1 -> "errors" [] n = 2 -> "failures" [] n = 3 -> "tests"
               [] n = 4 -> "time" [] OTHER -> "skipped"
    IN  IF n = 0 THEN "none"
        ELSE IF n = 5
        THEN IF IsNone(Get(attrs, "skips")) /\ "skipped" \notin DOMAIN attrs
             THEN "KeyError" ELSE "ValueError"
        ELSE IF k \notin DOMAIN attrs THEN "KeyError" ELSE "ValueError"

_start_testsuite(attrs) ==
    LET name == Get(attrs, "name")
        n == SuiteFailsAt(attrs)
        done(i) == n = 0 \/ n > i
    IN  /\ stderr' = IF name # Some(<<"p", "y", "t", "e", "s", "t">>)
                     THEN Append(stderr, name) ELSE stderr
        /\ expected_num_errors' =
             IF done(1) THEN Some(IntOf(attrs["errors"])) ELSE expected_num_errors
        /\ expected_num_failures' =
             IF done(2) THEN Some(IntOf(attrs["failures"])) ELSE expected_num_failures
        /\ expected_num_tests' =
             IF done(3) THEN Some(IntOf(attrs["tests"])) ELSE expected_num_tests
        /\ total_time_sec' =
             IF done(4) THEN Some(FloatOf(attrs["time"])) ELSE total_time_sec
        /\ expected_num_skips' =
             IF done(5)
             THEN Some(IntOf(IF IsNone(Get(attrs, "skips")) THEN attrs["skipped"]
                             ELSE attrs["skips"]))
             ELSE expected_num_skips
        /\ raised' = SuiteException(attrs)
        /\ UNCHANGED <<curVars, obsVars, bucketVars, unhandled_tags, showVars>>

\* a mutation of NestedTestcase: the assertion is gone
NestedTestcase_unchecked == FALSE

\* assert self._testcase_level == 1 fails after the increment
NestedTestcase == _testcase_level + 1 # 1

\* a mutation of MissingClassname: classname is read before name is tested
MissingClassname_eager(attrs) == "classname" \notin DOMAIN attrs

\* attrs["classname"] raises KeyError: it is read only for a true name
MissingClassname(attrs) ==
    Truthy(Get(attrs, "name")) /\ "classname" \notin DOMAIN attrs

\* a mutation of _start_testcase: the counter is incremented only for a
\* testcase that has a name
_start_testcase_countNamed(attrs) ==
    LET test_name == Get(attrs, "name")
        nested == NestedTestcase
        noclass == MissingClassname(attrs)
        cur_test == IF Truthy(test_name)
                    THEN Some(_pytest_fullname(Get(attrs, "classname"), Val(test_name)))
                    ELSE None
    IN  /\ _testcase_level' = _testcase_level + 1
        /\ raised' = IF nested THEN "AssertionError"
                     ELSE IF noclass THEN "KeyError"
                     ELSE "none"
        /\ num_testcases' = IF nested \/ ~Truthy(test_name) THEN num_testcases
                            ELSE num_testcases + 1
        /\ _cur_test' = IF nested \/ noclass THEN _cur_test ELSE cur_test
        /\ _cur_status' = IF nested \/ noclass THEN _cur_status ELSE None
        /\ show_attrs' = IF ~nested /\ ~noclass /\ _show = cur_test
                         THEN DictUpdate(show_attrs, attrs)
                         ELSE show_attrs
        /\ UNCHANGED <<expVars, num_errors, num_failures, num_skips, bucketVars,
                       unhandled_tags, show_text, stderr>>

_start_testcase(attrs) ==
    LET test_name == Get(attrs, "name")
        nested == NestedTestcase
        noclass == MissingClassname(attrs)
        cur_test == IF Truthy(test_name)
                    THEN Some(_pytest_fullname(Get(attrs, "classname"), Val(test_name)))
                    ELSE None
    IN  /\ _testcase_level' = _testcase_level + 1
        /\ raised' = IF nested THEN "AssertionError"
                     ELSE IF noclass THEN "KeyError"
                     ELSE "none"
        /\ num_testcases' = IF nested THEN num_testcases ELSE num_testcases + 1
        /\ _cur_test' = IF nested \/ noclass THEN _cur_test ELSE cur_test
        /\ _cur_status' = IF nested \/ noclass THEN _cur_status ELSE None
        /\ show_attrs' = IF ~nested /\ ~noclass /\ _show = cur_test
                         THEN DictUpdate(show_attrs, attrs)
                         ELSE show_attrs
        /\ UNCHANGED <<expVars, num_errors, num_failures, num_skips, bucketVars,
                       unhandled_tags, show_text, stderr>>

\* a mutation of _end_testcase: the passing list receives every testcase
_end_testcase_alwaysPassing ==
    /\ _testcase_level' = _testcase_level - 1
    /\ IF ~IsNone(_cur_status)
       THEN nonpassing_tests' = DictAppend(nonpassing_tests, Val(_cur_status), _cur_test)
       ELSE UNCHANGED nonpassing_tests
    /\ passing_tests' = Append(passing_tests, _cur_test)
    /\ _cur_test' = None
    /\ _cur_status' = None
    /\ UNCHANGED <<expVars, obsVars, unhandled_tags, showVars, stderr, raised>>

\* a mutation of _end_testcase: the identity goes to the front of its list
_end_testcase_prepending ==
    /\ _testcase_level' = _testcase_level - 1
    /\ IF ~IsNone(_cur_status)
       THEN /\ nonpassing_tests' =
                 [x \in (DOMAIN nonpassing_tests) \cup {Val(_cur_status)} |->
                     IF x = Val(_cur_status)
                     THEN <<_cur_test>> \o Bucket(nonpassing_tests, x)
                     ELSE nonpassing_tests[x]]
            /\ UNCHANGED passing_tests
       ELSE /\ passing_tests' = <<_cur_test>> \o passing_tests
            /\ UNCHANGED nonpassing_tests
    /\ _cur_test' = None
    /\ _cur_status' = None
    /\ UNCHANGED <<expVars, obsVars, unhandled_tags, showVars, stderr, raised>>

\* a mutation of _end_testcase: the current status is not reset
_end_testcase_keepsStatus ==
    /\ _testcase_level' = _testcase_level - 1
    /\ IF ~IsNone(_cur_status)
       THEN /\ nonpassing_tests' = DictAppend(nonpassing_tests, Val(_cur_status), _cur_test)
            /\ UNCHANGED passing_tests
       ELSE /\ passing_tests' = Append(passing_tests, _cur_test)
            /\ UNCHANGED nonpassing_tests
    /\ _cur_test' = None
    /\ UNCHANGED <<_cur_status, expVars, obsVars, unhandled_tags, showVars,
                   stderr, raised>>

\* a mutation of _end_testcase: a testcase without identity goes to no list
_end_testcase_skipNameless ==
    /\ _testcase_level' = _testcase_level - 1
    /\ IF IsNone(_cur_test)
       THEN UNCHANGED <<passing_tests, nonpassing_tests>>
       ELSE IF ~IsNone(_cur_status)
       THEN /\ nonpassing_tests' = DictAppend(nonpassing_tests, Val(_cur_status), _cur_test)
            /\ UNCHANGED passing_tests
       ELSE /\ passing_tests' = Append(passing_tests, _cur_test)
            /\ UNCHANGED nonpassing_tests
    /\ _cur_test' = None
    /\ _cur_status' = None
    /\ UNCHANGED <<expVars, obsVars, unhandled_tags, showVars, stderr, raised>>

_end_testcase ==
    /\ _testcase_level' = _testcase_level - 1
    /\ IF ~IsNone(_cur_status)
       THEN /\ nonpassing_tests' = DictAppend(nonpassing_tests, Val(_cur_status), _cur_test)
            /\ UNCHANGED passing_tests
       ELSE /\ passing_tests' = Append(passing_tests, _cur_test)
            /\ UNCHANGED nonpassing_tests
    /\ _cur_test' = None
    /\ _cur_status' = None
    /\ UNCHANGED <<expVars, obsVars, unhandled_tags, showVars, stderr, raised>>

\* a mutation of InsideTestcase: the assertion is gone
InsideTestcase_unchecked == TRUE

\* assert self._testcase_level == 1 of the child element handlers
InsideTestcase == _testcase_level = 1

\* a mutation of _start_error: an <error> is counted only when the
\* testcase has no status yet
_start_error_oncePerCase(attrs) ==
    /\ raised' = IF InsideTestcase THEN "none" ELSE "AssertionError"
    /\ num_errors' = IF InsideTestcase /\ IsNone(_cur_status)
                     THEN num_errors + 1 ELSE num_errors
    /\ _cur_status' = IF InsideTestcase THEN Some("ERROR") ELSE _cur_status
    /\ UNCHANGED <<_testcase_level, _cur_test, expVars, num_testcases,
                   num_failures, num_skips, bucketVars, unhandled_tags,
                   showVars, stderr>>

_start_error(attrs) ==
    /\ raised' = IF InsideTestcase THEN "none" ELSE "AssertionError"
    /\ num_errors' = IF InsideTestcase THEN num_errors + 1 ELSE num_errors
    /\ _cur_status' = IF InsideTestcase THEN Some("ERROR") ELSE _cur_status
    /\ UNCHANGED <<_testcase_level, _cur_test, expVars, num_testcases,
                   num_failures, num_skips, bucketVars, unhandled_tags,
                   showVars, stderr>>

\* a mutation of _start_failure: a status already set is kept
_start_failure_firstWins(attrs) ==
    /\ raised' = IF InsideTestcase THEN "none" ELSE "AssertionError"
    /\ num_failures' = IF InsideTestcase THEN num_failures + 1 ELSE num_failures
    /\ _cur_status' = IF InsideTestcase /\ IsNone(_cur_status) THEN Some("FAIL")
                      ELSE _cur_status
    /\ UNCHANGED <<_testcase_level, _cur_test, expVars, num_testcases,
                   num_errors, num_skips, bucketVars, unhandled_tags,
                   showVars, stderr>>

_start_failure(attrs) ==
    /\ raised' = IF InsideTestcase THEN "none" ELSE "AssertionError"
    /\ num_failures' = IF InsideTestcase THEN num_failures + 1 ELSE num_failures
    /\ _cur_status' = IF InsideTestcase THEN Some("FAIL") ELSE _cur_status
    /\ UNCHANGED <<_testcase_level, _cur_test, expVars, num_testcases,
                   num_errors, num_skips, bucketVars, unhandled_tags,
                   showVars, stderr>>

\* a mutation of _start_skipped: the expected skip count follows the
\* observed one
_start_skipped_reconciling(attrs) ==
    /\ raised' = IF InsideTestcase THEN "none" ELSE "AssertionError"
    /\ num_skips' = IF InsideTestcase THEN num_skips + 1 ELSE num_skips
    /\ _cur_status' = IF InsideTestcase THEN Some("SKIP") ELSE _cur_status
    /\ expected_num_skips' = IF InsideTestcase /\ ~IsNone(expected_num_skips)
                             THEN Some(num_skips + 1) ELSE expected_num_skips
    /\ UNCHANGED <<_testcase_level, _cur_test, expected_num_errors,
                   expected_num_failures, expected_num_tests, total_time_sec,
                   num_testcases, num_errors, num_failures, bucketVars,
                   unhandled_tags, showVars, stderr>>

_start_skipped(attrs) ==
    /\ raised' = IF InsideTestcase THEN "none" ELSE "AssertionError"
    /\ num_skips' = IF InsideTestcase THEN num_skips + 1 ELSE num_skips
    /\ _cur_status' = IF InsideTestcase THEN Some("SKIP") ELSE _cur_status
    /\ UNCHANGED <<_testcase_level, _cur_test, expVars, num_testcases,
                   num_errors, num_failures, bucketVars, unhandled_tags,
                   showVars, stderr>>

\* a mutation of _start_system_out: the element clears the current status
_start_system_out_clearing(attrs) ==
    /\ raised' = IF InsideTestcase THEN "none" ELSE "AssertionError"
    /\ _cur_status' = IF InsideTestcase THEN None ELSE _cur_status
    /\ UNCHANGED <<_testcase_level, _cur_test, expVars, obsVars, bucketVars,
                   unhandled_tags, showVars, stderr>>

_start_system_out(attrs) ==
    /\ raised' = IF InsideTestcase THEN "none" ELSE "AssertionError"
    /\ UNCHANGED <<curVars, expVars, obsVars, bucketVars, unhandled_tags,
                   showVars, stderr>>

_start_system_err(attrs) ==
    /\ raised' = IF InsideTestcase THEN "none" ELSE "AssertionError"
    /\ UNCHANGED <<curVars, expVars, obsVars, bucketVars, unhandled_tags,
                   showVars, stderr>>

\* f"_start_{name}".replace("-", "_") for the names of Tags
StartMethodName(name) ==
    CASE name = "system-out" -> "_start_system_out"
      [] name = "system-err" -> "_start_system_err"
      [] name = "system_out" -> "_start_system_out"
      [] name = "testsuites" -> "_start_testsuites"
      [] name = "testsuite" -> "_start_testsuite"
      [] name = "testcase" -> "_start_testcase"
      [] name = "error" -> "_start_error"
      [] name = "failure" -> "_start_failure"
      [] name = "skipped" -> "_start_skipped"
      [] name = "properties" -> "_start_properties"

\* the methods getattr(self, method_name, None) finds
StartMethods == {"_start_testsuites", "_start_testsuite", "_start_testcase",
                 "_start_error", "_start_failure", "_start_skipped",
                 "_start_system_out", "_start_system_err"}

\* a mutation of startElement: a name without a _start_ method is an error
startElement_strict(name, attrs) ==
    LET method_name == StartMethodName(name)
    IN  /\ _cur_tag' = name
        /\ IF method_name \in StartMethods
           THEN CASE method_name = "_start_testsuites" -> _start_testsuites(attrs)
                  [] method_name = "_start_testsuite" -> _start_testsuite(attrs)
                  [] method_name = "_start_testcase" -> _start_testcase(attrs)
                  [] method_name = "_start_error" -> _start_error(attrs)
                  [] method_name = "_start_failure" -> _start_failure(attrs)
                  [] method_name = "_start_skipped" -> _start_skipped(attrs)
                  [] method_name = "_start_system_out" -> _start_system_out(attrs)
                  [] method_name = "_start_system_err" -> _start_system_err(attrs)
           ELSE /\ raised' = "AttributeError"
                /\ UNCHANGED <<curVars, expVars, obsVars, bucketVars, showVars,
                               stderr, unhandled_tags>>

startElement(name, attrs) ==
    LET method_name == StartMethodName(name)
    IN  /\ _cur_tag' = name
        /\ IF method_name \in StartMethods
           THEN CASE method_name = "_start_testsuites" -> _start_testsuites(attrs)
                  [] method_name = "_start_testsuite" -> _start_testsuite(attrs)
                  [] method_name = "_start_testcase" -> _start_testcase(attrs)
                  [] method_name = "_start_error" -> _start_error(attrs)
                  [] method_name = "_start_failure" -> _start_failure(attrs)
                  [] method_name = "_start_skipped" -> _start_skipped(attrs)
                  [] method_name = "_start_system_out" -> _start_system_out(attrs)
                  [] method_name = "_start_system_err" -> _start_system_err(attrs)
           ELSE /\ unhandled_tags' = unhandled_tags \cup {name}
                /\ UNCHANGED <<curVars, expVars, obsVars, bucketVars, showVars,
                               stderr, raised>>

\* f"_end_{name}".replace("-", "-"): _end_testcase is the only _end_ method
endElement(name) ==
    /\ IF name = "testcase"
       THEN _end_testcase
       ELSE UNCHANGED <<curVars, expVars, obsVars, bucketVars, unhandled_tags,
                        showVars, stderr, raised>>
    /\ UNCHANGED _cur_tag

characters(content) ==
    /\ show_text' =
         IF _testcase_level # 1 \/ _cur_tag = "testcase" \/ content = <<>>
         THEN show_text
         ELSE IF _show = _cur_test
         THEN DictAppend(show_text, _cur_tag, content)
         ELSE show_text
    /\ UNCHANGED <<_cur_tag, curVars, expVars, obsVars, bucketVars,
                   unhandled_tags, show_attrs, stderr, raised>>

(* ----------------------------- event source ---------------------------- *)

\* the status a child element of <testcase> stands for
TagStatus(name) ==
    CASE name = "error" -> "ERROR"
      [] name = "failure" -> "FAIL"
      [] name = "skipped" -> "SKIP"

StatusTags == {"error", "failure", "skipped"}

\* the parser is delivering events and no handler has raised
Running == pc = "parsing" /\ raised = "none" /\ nevents < MaxEvents

\* an exception in a handler ends xml.sax.parse and the process
AfterEvent(open) ==
    pc' = IF raised' # "none" THEN "crashed"
          ELSE IF open = <<>> THEN "parsed"
          ELSE "parsing"

StartEventOf(name, attrs) ==
    /\ Running
    /\ Len(stack) < MaxDepth
    /\ startElement(name, attrs)
    /\ stack' = Append(stack, name)
    /\ nevents' = nevents + 1
    /\ ev' = [kind |-> "start", name |-> name, attrs |-> attrs, content |-> <<>>]
    /\ started' = IF name = "testcase" THEN started + 1 ELSE started
    /\ case_attrs' = IF name = "testcase" THEN Some(attrs) ELSE case_attrs
    /\ children' = IF name = "testcase" THEN <<>>
                   ELSE IF name \in StatusTags
                   THEN Append(children, TagStatus(name))
                   ELSE children
    /\ status_starts' = IF name \in StatusTags
                        THEN [status_starts EXCEPT ![name] = @ + 1]
                        ELSE status_starts
    /\ multi' = multi
    /\ AfterEvent(Append(stack, name))
    /\ UNCHANGED <<cfgVars, stdout>>

StartEvent ==
    \E name \in Tags : \E attrs \in AttrsOf(name) : StartEventOf(name, attrs)

EndEvent ==
    /\ Running
    /\ stack # <<>>
    /\ endElement(stack[Len(stack)])
    /\ stack' = AllButLast(stack)
    /\ nevents' = nevents + 1
    /\ ev' = [kind |-> "end", name |-> stack[Len(stack)], attrs |-> NoAttrs,
              content |-> <<>>]
    /\ multi' = (multi \/ (stack[Len(stack)] = "testcase" /\ Len(children) > 1))
    /\ AfterEvent(AllButLast(stack))
    /\ UNCHANGED <<cfgVars, started, case_attrs, children, status_starts, stdout>>

CharactersEvent ==
    \E content \in Contents :
        /\ Running
        /\ stack # <<>>
        /\ characters(content)
        /\ nevents' = nevents + 1
        /\ ev' = [kind |-> "characters", name |-> "", attrs |-> NoAttrs,
                  content |-> content]
        /\ AfterEvent(stack)
        /\ UNCHANGED <<cfgVars, stack, histVars, stdout>>

\* the input ends before the root element is closed: the parser's close()
\* raises SAXParseException out of xml.sax.parse, and main ends there
EndOfInput ==
    /\ pc = "parsing"
    /\ raised = "none"
    /\ raised' = "SAXParseException"
    /\ pc' = "crashed"
    /\ ev' = [kind |-> "eof", name |-> "", attrs |-> NoAttrs, content |-> <<>>]
    /\ UNCHANGED <<cfgVars, _cur_tag, curVars, expVars, obsVars, bucketVars,
                   unhandled_tags, showVars, stderr, stdout, stack, nevents,
                   histVars>>

(* ------------------------------- report -------------------------------- *)

\* the characters of the identities, in code point order
CodePoints == <<".", "/", ":", "A", "T", "_", "c", "d", "e", "f", "j", "m",
                "n", "o", "p", "s", "t", "u", "y">>

\* ord(c)
Ord(c) == CHOOSE i \in 1..Len(CodePoints) : CodePoints[i] = c

\* a < b for str
RECURSIVE StrLess(_, _)
StrLess(a, b) ==
    IF Len(b) = 0 THEN FALSE
    ELSE IF Len(a) = 0 THEN TRUE
    ELSE IF a[1] = b[1] THEN StrLess(Tail(a), Tail(b))
    ELSE Ord(a[1]) < Ord(b[1])

\* x put into the sorted list l; among equals, after them
RECURSIVE Insert(_, _)
Insert(l, x) ==
    IF Len(l) = 0 THEN <<x>>
    ELSE IF StrLess(x, l[1]) THEN <<x>> \o l
    ELSE <<l[1]>> \o Insert(Tail(l), x)

\* sorted(l) for a list of str
RECURSIVE Sorted(_)
Sorted(l) ==
    IF Len(l) = 0 THEN <<>>
    ELSE Insert(Sorted(AllButLast(l)), l[Len(l)])

\* sorted(l) of a list of optional str raises TypeError when it has to
\* compare None: the list has two or more entries and one of them is None
SortRaises(l) == Len(l) >= 2 /\ \E i \in 1..Len(l) : IsNone(l[i])

\* the str values of a list without None, and a single None as it is
SortedTests(l) ==
    IF \E i \in 1..Len(l) : IsNone(l[i]) THEN l
    ELSE LET strs == Sorted([i \in 1..Len(l) |-> Val(l[i])])
         IN  [i \in 1..Len(l) |-> Some(strs[i])]

\* "".join(chunks)
RECURSIVE JoinChunks(_)
JoinChunks(chunks) ==
    IF Len(chunks) = 0 THEN <<>>
    ELSE chunks[1] \o JoinChunks(Tail(chunks))

Line(label, val) == [label |-> label, val |-> val]

\* one print per entry of tests
TestLines(tests) == [i \in 1..Len(tests) |-> Line("test", tests[i])]

\* the first branch of report(): the lines printed and the exception raised
ReportHead ==
    IF Truthy(_show)
    THEN [out |-> <<Line("Details for test", _show),
                    Line("attrs", show_attrs),
                    Line("text", [tag \in DOMAIN show_text |->
                                    JoinChunks(show_text[tag])])>>,
          exc |-> "none"]
    ELSE IF IsNone(expected_num_errors) \/ IsNone(expected_num_failures)
    THEN [out |-> <<Line("Report on JUnit XML file", _junitxml),
                    Line("Stats from the <testsuites> tag", None)>>,
          exc |-> "TypeError"]
    ELSE [out |-> <<Line("Report on JUnit XML file", _junitxml),
                    Line("Stats from the <testsuites> tag", None),
                    Line("errors", Val(expected_num_errors) + Val(expected_num_failures)),
                    Line("skips", expected_num_skips),
                    Line("tests total", expected_num_tests),
                    Line("Stats from the body of the report", None),
                    Line("Number of errors", num_errors + num_failures),
                    Line("Number of skips", num_skips),
                    Line("Number of <testcase> tags", num_testcases),
                    Line("Total test suite run time", total_time_sec)>>,
          exc |-> "none"]

\* the unhandled tags: sorted(set) is printed, the set stands for it
ReportUnhandled(r) ==
    IF r.exc = "none" /\ unhandled_tags # {}
    THEN [r EXCEPT !.out = Append(@, Line("Unhandled tags", unhandled_tags))]
    ELSE r

\* a list section that prints its count and then sorts
ReportList(r, on, label, tests) ==
    IF r.exc # "none" \/ ~on THEN r
    ELSE IF SortRaises(tests)
    THEN [out |-> Append(r.out, Line(label, Len(tests))), exc |-> "TypeError"]
    ELSE [out |-> Append(r.out, Line(label, Len(tests))) \o TestLines(SortedTests(tests)),
          exc |-> "none"]

\* the error section sorts before it prints its count
ReportFailed(r, on, tests) ==
    IF r.exc # "none" \/ ~on THEN r
    ELSE IF SortRaises(tests) THEN [r EXCEPT !.exc = "TypeError"]
    ELSE [out |-> Append(r.out, Line("tests with status ERROR or FAIL", Len(tests)))
                    \o TestLines(SortedTests(tests)),
          exc |-> "none"]

\* the keys self.nonpassing_tests[...] creates in the defaultdict
TouchKeys(d, ks) == [x \in (DOMAIN d) \cup ks |-> Bucket(d, x)]

report ==
    LET r1 == ReportUnhandled(ReportHead)
        r2 == ReportList(r1, _report_passing, "passing tests", passing_tests)
        r3 == ReportList(r2, _report_skips, "tests with status SKIP",
                         Bucket(nonpassing_tests, "SKIP"))
        r4 == ReportFailed(r3, _report_errors,
                           Bucket(nonpassing_tests, "ERROR")
                             \o Bucket(nonpassing_tests, "FAIL"))
        skipKeys == IF r2.exc = "none" /\ _report_skips THEN {"SKIP"} ELSE {}
        failKeys == IF r3.exc = "none" /\ _report_errors THEN {"ERROR", "FAIL"}
                    ELSE {}
    IN  /\ stdout' = stdout \o r4.out
        /\ raised' = r4.exc
        /\ nonpassing_tests' = TouchKeys(nonpassing_tests, skipKeys \cup failKeys)
        /\ UNCHANGED <<_cur_tag, curVars, expVars, obsVars, passing_tests,
                       unhandled_tags, showVars, stderr>>

\* main calls handler.report() after xml.sax.parse returned
Report ==
    /\ pc = "parsed"
    /\ raised = "none"
    /\ report
    /\ pc' = IF raised' # "none" THEN "crashed" ELSE "reported"
    /\ ev' = [kind |-> "report", name |-> "", attrs |-> NoAttrs, content |-> <<>>]
    /\ UNCHANGED <<cfgVars, stack, nevents, histVars>>

Next == StartEvent \/ EndEvent \/ CharactersEvent \/ EndOfInput \/ Report

Spec == Init /\ [][Next]_vars

(* ------------------ one <testcase> with drawn attributes --------------- *)

\* a document of one <testcase> element whose attributes and command line
\* are drawn from the larger sets; the start event is still to be delivered
InitFullname ==
    /\ \E args \in FullnameArgsPool : __init__(args)
    /\ stderr = <<>>
    /\ stdout = <<>>
    /\ raised = "none"
    /\ pc = "parsing"
    /\ stack = <<>>
    /\ nevents = 0
    /\ \E attrs \in FullnameAttrs :
         ev = [kind |-> "pending", name |-> "testcase", attrs |-> attrs,
               content |-> <<>>]
    /\ started = 0
    /\ case_attrs = None
    /\ children = <<>>
    /\ status_starts = [t \in {"error", "failure", "skipped"} |-> 0]
    /\ multi = FALSE

DeliverPending ==
    /\ ev.kind = "pending"
    /\ StartEventOf(ev.name, ev.attrs)

NextFullname == DeliverPending \/ EndEvent

SpecFullname == InitFullname /\ [][NextFullname]_vars

(* ------------------------------ properties ----------------------------- *)

Statuses == {"ERROR", "FAIL", "SKIP"}

\* the number of <testcase> elements among the open elements
OpenTestcases(open) == Cardinality({i \in 1..Len(open) : open[i] = "testcase"})

\* this step delivers an event of the kind and element name
Delivers(kind, name) ==
    nevents' # nevents /\ ev'.kind = kind /\ ev'.name = name

\* the identity id goes to the list of the last status of kids, or to the
\* passing list when kids is empty, and every other list is as it was
AppendedByStatus(id, kids) ==
    /\ passing_tests' = IF kids = <<>> THEN Append(passing_tests, id)
                        ELSE passing_tests
    /\ \A st \in Statuses :
         Bucket(nonpassing_tests', st) =
           IF kids # <<>> /\ st = kids[Len(kids)]
           THEN Append(Bucket(nonpassing_tests, st), id)
           ELSE Bucket(nonpassing_tests, st)

\* C1: while no handler has raised, num_testcases is the number of
\* <testcase> start events delivered, whatever attributes they carried
C1_CounterIsStarts == raised = "none" => num_testcases = started

C1_Witness ==
    /\ raised = "none"
    /\ ev.kind = "start" /\ ev.name = "testcase"
    /\ "name" \notin DOMAIN ev.attrs
    /\ started = 2
    /\ num_testcases = 2

\* C2: a <testcase> start delivered while a <testcase> is open raises the
\* assertion error and ends the parse; it is not counted and no list changes
C2_NestedTestcaseRaises ==
    [][(Delivers("start", "testcase") /\ OpenTestcases(stack) >= 1)
        => /\ raised' = "AssertionError"
           /\ pc' = "crashed"
           /\ num_testcases' = num_testcases
           /\ passing_tests' = passing_tests
           /\ nonpassing_tests' = nonpassing_tests]_vars

C2_Witness ==
    /\ raised = "AssertionError"
    /\ ev.kind = "start" /\ ev.name = "testcase"
    /\ OpenTestcases(stack) = 2

\* attributes of <testsuite> with numeric errors, failures, tests and time
\* and neither skips nor skipped
SuiteNoSkips(attrs) ==
    /\ {"errors", "failures", "tests", "time"} \subseteq DOMAIN attrs
    /\ "skips" \notin DOMAIN attrs
    /\ "skipped" \notin DOMAIN attrs
    /\ IntOk(attrs["errors"]) /\ IntOk(attrs["failures"]) /\ IntOk(attrs["tests"])
    /\ FloatOk(attrs["time"])

\* after the step the four header fields hold the values of attrs
HeaderStored(attrs) ==
    /\ expected_num_errors' = Some(IntOf(attrs["errors"]))
    /\ expected_num_failures' = Some(IntOf(attrs["failures"]))
    /\ expected_num_tests' = Some(IntOf(attrs["tests"]))
    /\ total_time_sec' = Some(FloatOf(attrs["time"]))

\* C3 as stated: a <testsuite> start without skips and skipped raises
\* nothing, the parse goes on, the expected skip count is left alone and
\* the other header fields hold the attribute values
C3_Original ==
    [][(Delivers("start", "testsuite") /\ SuiteNoSkips(ev'.attrs))
        => /\ raised' = "none"
           /\ pc' # "crashed"
           /\ expected_num_skips' = expected_num_skips
           /\ HeaderStored(ev'.attrs)]_vars

\* C3 amended: a <testsuite> start without skips and skipped raises KeyError
\* and ends the parse, after the other header fields were stored; the
\* expected skip count is left alone
C3_MissingSkipsRaises ==
    [][(Delivers("start", "testsuite") /\ SuiteNoSkips(ev'.attrs))
        => /\ raised' = "KeyError"
           /\ pc' = "crashed"
           /\ expected_num_skips' = expected_num_skips
           /\ HeaderStored(ev'.attrs)]_vars

C3_Witness ==
    /\ ev.kind = "start" /\ ev.name = "testsuite"
    /\ SuiteNoSkips(ev.attrs)
    /\ raised = "KeyError"
    /\ IsNone(expected_num_skips)
    /\ expected_num_errors = Some(1)
    /\ total_time_sec = Some(<<1, <<"5">>>>)

\* the events the handlers receive
HandlerEvents == {"start", "end", "characters"}

\* C4 as stated: a handler has raised only if the last event is a
\* <testcase> start inside an open <testcase>
C4_Original ==
    (ev.kind \in HandlerEvents /\ raised # "none")
      => /\ ev.kind = "start" /\ ev.name = "testcase"
         /\ OpenTestcases(stack) >= 2

\* the <testsuite> attributes _start_testsuite needs are there and numeric
SuiteComplete(attrs) ==
    /\ \A k \in {"errors", "failures", "tests"} :
         k \in DOMAIN attrs /\ IntOk(attrs[k])
    /\ "time" \in DOMAIN attrs /\ FloatOk(attrs["time"])
    /\ IF "skips" \in DOMAIN attrs THEN IntOk(attrs["skips"])
       ELSE "skipped" \in DOMAIN attrs /\ IntOk(attrs["skipped"])

\* the events that raise, by the event e and the elements open before it
RaisingEvent(e, open) ==
    /\ e.kind = "start"
    /\ \/ e.name = "testcase" /\ OpenTestcases(open) >= 1
       \/ /\ e.name = "testcase"
          /\ "name" \in DOMAIN e.attrs /\ e.attrs["name"] # <<>>
          /\ "classname" \notin DOMAIN e.attrs
       \/ e.name = "testsuite" /\ ~SuiteComplete(e.attrs)
       \/ /\ e.name \in {"error", "failure", "skipped", "system-out",
                         "system-err", "system_out"}
          /\ OpenTestcases(open) = 0

\* C4 amended: a handler raises exactly on a <testcase> start inside an open
\* <testcase>, a <testcase> start with a name and no classname, a <testsuite>
\* start with a missing or non-numeric count or time, and an error, failure,
\* skipped, system-out or system-err start outside a <testcase>
C4_RaisingEvents ==
    ev.kind \in HandlerEvents
      => ((raised # "none") <=> RaisingEvent(ev, AllButLast(stack)))

C4_Witness ==
    /\ raised = "AssertionError"
    /\ ev.kind = "start" /\ ev.name = "system-err"
    /\ OpenTestcases(stack) = 0
    /\ Len(stack) = 2

\* C5: a <testcase> end appends the current identity to the list of the last
\* error/failure/skipped child started since the <testcase> start, or to the
\* passing list when there was none, and changes no other list
C5_EndAppendsToOneList ==
    [][Delivers("end", "testcase") => AppendedByStatus(_cur_test, children)]_vars

C5_Witness ==
    /\ ev.kind = "end" /\ ev.name = "testcase"
    /\ children = <<"SKIP">>
    /\ Len(Bucket(nonpassing_tests, "SKIP")) = 1
    /\ passing_tests = <<>>
    /\ DOMAIN nonpassing_tests = {"SKIP"}

\* C6: a second or later error/failure/skipped start in a testcase raises
\* nothing, and the <testcase> end appends the identity to the list of the
\* last of them only
C6_LastChildWins ==
    [][/\ (/\ nevents' # nevents
           /\ ev'.kind = "start" /\ ev'.name \in StatusTags
           /\ OpenTestcases(stack) = 1
           /\ children # <<>>)
          => /\ raised' = "none"
             /\ _cur_status' = Some(TagStatus(ev'.name))
       /\ (Delivers("end", "testcase") /\ Len(children) >= 2)
          => AppendedByStatus(_cur_test, children)]_vars

C6_Witness ==
    /\ ev.kind = "end" /\ ev.name = "testcase"
    /\ children = <<"ERROR", "FAIL">>
    /\ Len(Bucket(nonpassing_tests, "FAIL")) = 1
    /\ Bucket(nonpassing_tests, "ERROR") = <<>>
    /\ passing_tests = <<>>

\* the open <testcase> was started without a name attribute
NamelessCase == ~IsNone(case_attrs) /\ "name" \notin DOMAIN Val(case_attrs)

\* C7 as stated: a <testcase> start without name never raises, records the
\* absent identity and is counted, and its end appends the absent identity
\* by the status of its children
C7_Original ==
    [][/\ (Delivers("start", "testcase") /\ "name" \notin DOMAIN ev'.attrs)
          => /\ raised' = "none"
             /\ IsNone(_cur_test')
             /\ num_testcases' = num_testcases + 1
       /\ (Delivers("end", "testcase") /\ NamelessCase)
          => AppendedByStatus(None, children)]_vars

\* C7 amended: a <testcase> start without name delivered while no <testcase>
\* is open never raises, records the absent identity and is counted, and its
\* end appends the absent identity by the status of its children
C7_NamelessTestcase ==
    [][/\ (/\ Delivers("start", "testcase")
           /\ "name" \notin DOMAIN ev'.attrs
           /\ OpenTestcases(stack) = 0)
          => /\ raised' = "none"
             /\ IsNone(_cur_test')
             /\ num_testcases' = num_testcases + 1
       /\ (Delivers("end", "testcase") /\ NamelessCase)
          => AppendedByStatus(None, children)]_vars

C7_Witness ==
    /\ ev.kind = "end" /\ ev.name = "testcase"
    /\ NamelessCase
    /\ children = <<"ERROR">>
    /\ Bucket(nonpassing_tests, "ERROR") = <<None>>
    /\ num_testcases = 1

\* C8: character data changes the captured text only while a <testcase> is
\* open, the enclosing element is not the <testcase> itself, and the identity
\* of the open testcase is the one selected by --show
C8_CaptureOnlyWhenSelected ==
    [][show_text' # show_text
        => /\ ev'.kind = "characters"
           /\ OpenTestcases(stack) >= 1
           /\ stack[Len(stack)] # "testcase"
           /\ _show = _cur_test]_vars

\* C9: a captured chunk is appended to the list kept under the name of the
\* innermost open element
C9_StoredUnderEnclosing ==
    [][show_text' # show_text
        => /\ ev'.kind = "characters"
           /\ show_text' = DictAppend(show_text, stack[Len(stack)], ev'.content)]_vars

\* os.path.splitext(f)[0]: the last "." of the last path component starts
\* the extension unless only dots precede it in that component
StripExt(f) ==
    LET sepIndex == RFindFrom(f, "/", Len(f))
        dotIndex == RFindFrom(f, ".", Len(f))
    IN  IF dotIndex > sepIndex
           /\ \E i \in (sepIndex + 1)..(dotIndex - 1) : f[i] # "."
        THEN SubSeq(f, 1, dotIndex - 1)
        ELSE f

\* the module path derived from file equals the dotted classname
FileMatches(attrs) ==
    /\ "file" \in DOMAIN attrs
    /\ Split(StripExt(attrs["file"]), "/") = Split(attrs["classname"], ".")

\* the path made of the components parts, after the two prefixes
PathOf(parts) ==
    LET path == Join(parts, "/") \o DotPy
    IN  _add_prefix \o (IF _strip_prefix # <<>> /\ StartsWith(path, _strip_prefix)
                        THEN Drop(path, Len(_strip_prefix))
                        ELSE path)

\* the last event is an accepted <testcase> start whose file matches its
\* classname
MatchingFileStarted ==
    /\ ev.kind = "start" /\ ev.name = "testcase"
    /\ raised = "none"
    /\ FileMatches(ev.attrs)

\* C10 as stated: when file matches the classname, the identity is
\* file_path::test_name, the last component being part of the path whatever
\* it begins with
C10_Original ==
    MatchingFileStarted
      => _cur_test = Some(PathOf(Split(ev.attrs["classname"], "."))
                          \o ColonColon \o ev.attrs["name"])

\* C10 amended: when file matches the classname, the identity is
\* file_path::test_name if the last component is not empty and does not begin
\* with "Test"; a last component that begins with "Test" stays the class name
\* and the identity is path::component::test_name
C10_FileIsNotConsulted ==
    MatchingFileStarted
      => LET parts == Split(ev.attrs["classname"], ".")
             last == parts[Len(parts)]
         IN  /\ (last # <<>> /\ ~StartsWith(last, Test))
                  => _cur_test = Some(PathOf(parts) \o ColonColon \o ev.attrs["name"])
             /\ StartsWith(last, Test)
                  => _cur_test = Some(PathOf(AllButLast(parts)) \o ColonColon
                                      \o last \o ColonColon \o ev.attrs["name"])

C10_Witness ==
    /\ MatchingFileStarted
    /\ ev.attrs["classname"] = <<"T", "e", "s", "t", "A", ".", "m">>
    /\ _strip_prefix = <<>> /\ _add_prefix = <<>>
    /\ _cur_test = Some(ev.attrs["file"] \o ColonColon \o T1)

\* the last event is an accepted <testcase> start
CaseStarted ==
    /\ ev.kind = "start" /\ ev.name = "testcase"
    /\ raised = "none"
    /\ "name" \in DOMAIN ev.attrs /\ "classname" \in DOMAIN ev.attrs

\* C11: without a file attribute and with empty prefixes, a dotted classname
\* c1.c2...cn whose last component is not empty gives c1/.../c(n-1).py::cn::t
\* when cn begins with "Test", and c1/.../cn.py::t otherwise
C11_NoFileConvention ==
    (/\ CaseStarted
     /\ "file" \notin DOMAIN ev.attrs
     /\ _strip_prefix = <<>> /\ _add_prefix = <<>>
     /\ LET parts == Split(ev.attrs["classname"], ".")
        IN  Len(parts) = 1 \/ parts[Len(parts)] # <<>>)
      => LET parts == Split(ev.attrs["classname"], ".")
             cn == parts[Len(parts)]
             t == ev.attrs["name"]
         IN  _cur_test =
               Some(IF StartsWith(cn, Test)
                    THEN Join(AllButLast(parts), "/") \o DotPy \o ColonColon
                           \o cn \o ColonColon \o t
                    ELSE Join(parts, "/") \o DotPy \o ColonColon \o t)

C11_Witness ==
    /\ CaseStarted
    /\ "file" \notin DOMAIN ev.attrs
    /\ _strip_prefix = <<>> /\ _add_prefix = <<>>
    /\ ev.attrs["classname"] = <<"m", ".", "m", ".", "T", "e", "s", "t", "A">>
    /\ _cur_test = Some(<<"m", "/", "m", ".", "p", "y", ":", ":",
                          "T", "e", "s", "t", "A", ":", ":", "t">>)

\* the identity of the started testcase when no prefix is added
BareIdentity ==
    PytestFullname(_strip_prefix, <<>>, Get(ev.attrs, "classname"), ev.attrs["name"])

\* C12 as stated: the add-prefix is prepended only to a path that does not
\* start with it already
C12_Original ==
    CaseStarted
      => _cur_test = Some(IF StartsWith(BareIdentity, _add_prefix)
                          THEN BareIdentity
                          ELSE _add_prefix \o BareIdentity)

\* C12 amended: the add-prefix is always prepended to the path left by the
\* prefix-strip, also when that path starts with it already
C12_AlwaysPrepended ==
    CaseStarted => _cur_test = Some(_add_prefix \o BareIdentity)

C12_Witness ==
    /\ CaseStarted
    /\ _add_prefix = <<"m", "/">>
    /\ StartsWith(BareIdentity, _add_prefix)
    /\ StartsWith(Val(_cur_test), _add_prefix \o _add_prefix)
    /\ ~StartsWith(BareIdentity, _add_prefix \o _add_prefix)

\* the path of an identity: what comes before the first ":"
IdPath(id) == SubSeq(id, 1, FindFrom(id, ":", 1) - 1)

\* the identity of the started testcase when no prefix is stripped or added
RawIdentity ==
    PytestFullname(<<>>, <<>>, Get(ev.attrs, "classname"), ev.attrs["name"])

TestsTestMod ==
    <<"t", "e", "s", "t", "s", "/", "t", "e", "s", "t", "_", "m", "o", "d",
      ".", "p", "y", ":", ":", "t", "e", "s", "t", "_", "f", "u", "n", "c">>

\* C13: a reconstructed path that starts with the strip-prefix loses that
\* prefix once and any other path is kept, before the add-prefix is put in
\* front; /code/tests/test_mod.py with strip-prefix /code/ and no add-prefix
\* gives tests/test_mod.py::test_func
C13_StripOnce ==
    CaseStarted
      => LET path == IdPath(RawIdentity)
             rest == Drop(RawIdentity, Len(path))
             kept == IF StartsWith(path, _strip_prefix)
                     THEN Drop(path, Len(_strip_prefix))
                     ELSE path
         IN  /\ _cur_test = Some(_add_prefix \o kept \o rest)
             /\ (ev.attrs = CaseCodePath /\ _strip_prefix = Code /\ _add_prefix = <<>>)
                  => _cur_test = Some(TestsTestMod)

C13_Witness ==
    /\ CaseStarted
    /\ ev.attrs = CaseCodePath
    /\ _strip_prefix = Code /\ _add_prefix = <<>>
    /\ IdPath(RawIdentity) = Code \o IdPath(TestsTestMod)
    /\ _cur_test = Some(TestsTestMod)

\* C14: a <testsuite> start with a name absent or other than "pytest" and
\* numeric counts raises nothing and the parse goes on; it writes one
\* warning, and stores the header and leaves every other field alone exactly
\* as the start of a suite named pytest does
C14_NameMismatchWarns ==
    [][(Delivers("start", "testsuite") /\ SuiteComplete(ev'.attrs))
        => LET name == Get(ev'.attrs, "name")
               skips == IF "skips" \in DOMAIN ev'.attrs THEN ev'.attrs["skips"]
                        ELSE ev'.attrs["skipped"]
           IN  /\ raised' = "none"
               /\ pc' = "parsing"
               /\ stderr' = IF name = Some(<<"p", "y", "t", "e", "s", "t">>)
                            THEN stderr
                            ELSE Append(stderr, name)
               /\ HeaderStored(ev'.attrs)
               /\ expected_num_skips' = Some(IntOf(skips))
               /\ UNCHANGED <<curVars, obsVars, bucketVars, unhandled_tags,
                              showVars>>]_vars

C14_Witness ==
    /\ raised = "none"
    /\ stderr = <<Some(<<"x">>)>>
    /\ expected_num_skips = Some(3)
    /\ expected_num_tests = Some(12)
    /\ ev.kind = "end" /\ ev.name = "testcase"
    /\ Len(passing_tests) = 1

\* the element names that have a _start_ method, system_out being one by the
\* replacement of "-"
HandledTags == {"testsuites", "testsuite", "testcase", "error", "failure",
                "skipped", "system-out", "system-err", "system_out"}

\* C15: a start event for an element name without a handler, in any state,
\* adds the name to unhandled_tags, raises nothing, and leaves alone the
\* testcase level, the current identity and status, the observed and the
\* expected counters and the lists
C15_UnhandledStart ==
    [][(nevents' # nevents /\ ev'.kind = "start" /\ ev'.name \notin HandledTags)
        => /\ unhandled_tags' = unhandled_tags \cup {ev'.name}
           /\ raised' = "none"
           /\ pc' = "parsing"
           /\ UNCHANGED <<curVars, obsVars, expVars, bucketVars>>]_vars

C15_Witness ==
    /\ ev.kind = "start" /\ ev.name = "properties"
    /\ raised = "none"
    /\ unhandled_tags = {"properties"}
    /\ _testcase_level = 1
    /\ _cur_status = Some("FAIL")
    /\ ~IsNone(_cur_test)
    /\ num_failures = 1

\* C18: a <testsuite> start changes no observed counter and no list, and a
\* <testcase>, <error>, <failure> or <skipped> start, an end event and a
\* character event change no expected_* field and not the total time
C18_NoReconciliation ==
    [][/\ Delivers("start", "testsuite") => UNCHANGED <<obsVars, bucketVars>>
       /\ (/\ nevents' # nevents
           /\ \/ ev'.kind \in {"end", "characters"}
              \/ /\ ev'.kind = "start"
                 /\ ev'.name \in {"testcase", "error", "failure", "skipped"})
            => UNCHANGED expVars]_vars

C18_Witness ==
    /\ ev.kind = "start" /\ ev.name = "testsuite"
    /\ raised = "none"
    /\ num_testcases = 1
    /\ Len(passing_tests) = 1
    /\ expected_num_tests = Some(12)
    /\ expected_num_errors = Some(1)
    /\ num_errors = 0

\* the list l is the first Len(l) entries of the list m
IsPrefix(l, m) == Len(l) <= Len(m) /\ SubSeq(m, 1, Len(l)) = l

\* the passing list and the list of status st grow only at their end, by the
\* identity of the <testcase> that is ending
GrowsAtEnd(before, after) ==
    /\ IsPrefix(before, after)
    /\ Len(after) <= Len(before) + 1
    /\ after # before
         => /\ Delivers("end", "testcase")
            /\ after[Len(after)] = _cur_test

\* C19: in every step the passing list and each status list keep their
\* entries in place and grow by at most one entry, at the end, and only on a
\* <testcase> end event, by the identity of that testcase
C19_AppendOnly ==
    [][/\ GrowsAtEnd(passing_tests, passing_tests')
       /\ \A st \in Statuses :
            GrowsAtEnd(Bucket(nonpassing_tests, st), Bucket(nonpassing_tests', st))]_vars

C19_Witness ==
    /\ ev.kind = "end" /\ ev.name = "testcase"
    /\ Len(passing_tests) = 2
    /\ IsNone(passing_tests[1])
    /\ ~IsNone(passing_tests[2])
    /\ started = 2

\* C20: a <system-out> or <system-err> start inside a <testcase> raises
\* nothing and changes no current status, counter or list, and the end of a
\* <testcase> whose last status child is <failure> puts it on the FAIL list
C20_OutputKeepsStatus ==
    [][/\ (/\ nevents' # nevents
           /\ ev'.kind = "start"
           /\ ev'.name \in {"system-out", "system-err"}
           /\ OpenTestcases(stack) = 1)
            => /\ raised' = "none"
               /\ UNCHANGED <<curVars, obsVars, expVars, bucketVars>>
       /\ (/\ Delivers("end", "testcase")
           /\ children # <<>>
           /\ children[Len(children)] = "FAIL")
            => /\ _cur_status = Some("FAIL")
               /\ Bucket(nonpassing_tests', "FAIL") =
                    Append(Bucket(nonpassing_tests, "FAIL"), _cur_test)]_vars

C20_Witness ==
    /\ ev.kind = "end" /\ ev.name = "testcase"
    /\ _cur_tag = "system-out"
    /\ children = <<"FAIL">>
    /\ Len(Bucket(nonpassing_tests, "FAIL")) = 1
    /\ passing_tests = <<>>
    /\ num_failures = 1

\* C16: when the input ends inside an open <testcase>, the run does not
\* crash and goes on to the report
C16_TruncatedStillReports ==
    (ev.kind = "eof" /\ _testcase_level = 1 /\ OpenTestcases(stack) = 1)
      => /\ raised = "none"
         /\ pc \in {"parsed", "reported"}

\* C17: the report that follows a parse without an exception completes, and
\* its output names the unhandled tags when there are any
C17_ReportCompletes ==
    ev.kind = "report"
      => /\ raised = "none"
         /\ pc = "reported"
         /\ unhandled_tags # {}
              => \E i \in 1..Len(stdout) : stdout[i].label = "Unhandled tags"

\* C21: without --show the detail attributes and the detail text are empty
\* in every state
C21_NoShowNoDetails ==
    IsNone(_show) => show_attrs = NoAttrs /\ show_text = NoAttrs

\* C22: while nothing has raised, the testcase level is 0 or 1 and is the
\* number of open <testcase> elements, the current status is unset at level
\* 0, and a <testcase> start leaves it unset
C22_LevelAndStatus ==
    raised = "none"
      => /\ _testcase_level \in {0, 1}
         /\ _testcase_level = OpenTestcases(stack)
         /\ _testcase_level = 0 => IsNone(_cur_status)
         /\ (ev.kind = "start" /\ ev.name = "testcase") => IsNone(_cur_status)

C22_Witness ==
    /\ raised = "none"
    /\ ev.kind = "start" /\ ev.name = "testcase"
    /\ started = 2
    /\ _testcase_level = 1
    /\ Len(Bucket(nonpassing_tests, "FAIL")) = 1
    /\ IsNone(_cur_status)

\* the number of entries of the passing list and the three status lists
Finalized ==
    Len(passing_tests) + Len(Bucket(nonpassing_tests, "ERROR"))
      + Len(Bucket(nonpassing_tests, "FAIL")) + Len(Bucket(nonpassing_tests, "SKIP"))

\* C23: while nothing has raised, the four lists together hold num_testcases
\* entries outside a <testcase> and num_testcases - 1 entries inside one
C23_Conservation ==
    raised = "none"
      => /\ _testcase_level = 0 => Finalized = num_testcases
         /\ _testcase_level = 1 => Finalized = num_testcases - 1

C23_Witness ==
    /\ raised = "none"
    /\ ev.kind = "start" /\ ev.name = "error"
    /\ _testcase_level = 1
    /\ num_testcases = 2
    /\ passing_tests = <<None>>
    /\ Finalized = 1
    /\ _cur_status = Some("ERROR")

\* the number of entries of the three status lists
NonPassing ==
    Len(Bucket(nonpassing_tests, "ERROR")) + Len(Bucket(nonpassing_tests, "FAIL"))
      + Len(Bucket(nonpassing_tests, "SKIP"))

\* C24: while nothing has raised, each of num_errors, num_failures and
\* num_skips is the number of start events of its tag, and outside a
\* <testcase> their sum is at least the number of entries of the three status
\* lists, and equal to it exactly when no finished <testcase> had more than
\* one error/failure/skipped start
C24_CountersCountStarts ==
    raised = "none"
      => /\ num_errors = status_starts["error"]
         /\ num_failures = status_starts["failure"]
         /\ num_skips = status_starts["skipped"]
         /\ _testcase_level = 0
              => /\ num_errors + num_failures + num_skips >= NonPassing
                 /\ (num_errors + num_failures + num_skips = NonPassing) <=> ~multi

C24_Witness ==
    /\ raised = "none"
    /\ ev.kind = "end" /\ ev.name = "testcase"
    /\ _testcase_level = 0
    /\ multi
    /\ num_errors = 1 /\ num_failures = 1
    /\ Len(Bucket(nonpassing_tests, "ERROR")) = 1
    /\ NonPassing = 1

====
